---- MODULE Spec2Model ----
(***************************************************************************)
(* mobsf-cli (Python): the API client (mobsf_core/client.py), its response *)
(* decoders (mobsf_core/response.py), its error type (mobsf_core/error.py) *)
(* and the command workflows on top of it (cli/app.py, cli/main.py).       *)
(*                                                                         *)
(* One behaviour of the model is one run of the command line program: the  *)
(* initial state fixes the command and its arguments, the environment      *)
(* (file system, server, network) answers nondeterministically.            *)
(*                                                                         *)
(* Conventions.                                                            *)
(*  - A JSON / Python value is a tagged record (JStr, JNum, JNull, JBool,  *)
(*    JObj, JArr): Python does not check types at run time, and neither    *)
(*    does the model; a field of a record holds whatever the body held.    *)
(*  - A float (average_cvss, the cvss limit) is a fixed-point number in    *)
(*    tenths: 3.5 is JFloat(35). An int is JNum.                           *)
(*  - A Python call either returns a value or raises: Return(v), Raise(e). *)
(*  - Optional[T] is <<>> (None) or <<v>>.                                 *)
(***************************************************************************)
EXTENDS Integers, Sequences, FiniteSets, TLC

----------------------------------------------------------------------------
(* Values *)

NoObj == [k \in {} |-> 0]

JStr(s) == [t |-> "str", s |-> s, n |-> 0, o |-> NoObj, a |-> <<>>]

JNum(n) == [t |-> "num", s |-> "", n |-> n, o |-> NoObj, a |-> <<>>]

\* A Python float, in tenths: 3.5 is JFloat(35).
JFloat(n) == [t |-> "float", s |-> "", n |-> n, o |-> NoObj, a |-> <<>>]

JNull == [t |-> "null", s |-> "", n |-> 0, o |-> NoObj, a |-> <<>>]

JObj(o) == [t |-> "obj", s |-> "", n |-> 0, o |-> o, a |-> <<>>]

JArr(a) == [t |-> "arr", s |-> "", n |-> 0, o |-> NoObj, a |-> a]

\* Python truthiness of a value (bool(v)).
Truthy(v) ==
    CASE v.t = "null" -> FALSE
      [] v.t = "str" -> v.s # ""
      [] v.t = "num" -> v.n # 0
      [] v.t = "float" -> v.n # 0
      [] v.t = "obj" -> DOMAIN v.o # {}
      [] v.t = "arr" -> v.a # <<>>

None == <<>>

Some(v) == <<v>>

----------------------------------------------------------------------------
(* Exceptions *)

\* mobsf_core/error.py: ErrorCause values
HTTP_CLIENT_ERROR == "HttpClientError"

IO_ERROR == "IoError"

INVALID_HTTP_RESPONSE == "InvalidHttpResponse"

ErrorCause == {HTTP_CLIENT_ERROR, IO_ERROR, INVALID_HTTP_RESPONSE}

NoExc == [type |-> "none", cause |-> "", message |-> JNull, status_code |-> JNull]

\* MobsfError(cause, message, status_code=None)
MobsfError(cause, message, status_code) ==
    [type |-> "MobsfError", cause |-> cause, message |-> message,
     status_code |-> status_code]

\* Any other Python exception (KeyError, TypeError, ...), with its text.
PyExc(type, text) ==
    [type |-> type, cause |-> "", message |-> JStr(text), status_code |-> JNull]

Return(v) == [ok |-> TRUE, val |-> Some(v), exc |-> NoExc]

Raise(e) == [ok |-> FALSE, val |-> None, exc |-> e]

----------------------------------------------------------------------------
(* dict access *)

\* data.get(key, default) on a dict
Get(data, key, default) == IF key \in DOMAIN data.o THEN data.o[key] ELSE default

Has(data, keys) == keys \subseteq DOMAIN data.o

----------------------------------------------------------------------------
(* Response bodies the server may send, as raw text, and their JSON parse. *)

B_EMPTY == ""

B_TEXT == "Not Found"

B_ERR == "{\"error\":\"Invalid hash\"}"

B_ERRNUM == "{\"error\":42}"

B_NOERR == "{}"

B_ARR == "[]"

B_SCALAR == "42"

UP_OK == "{\"analyzer\":\"static_analyzer\",\"status\":\"success\",\"hash\":\"abc123\",\"scan_type\":\"apk\",\"file_name\":\"test.apk\"}"

UP_EXTRA == "{\"analyzer\":\"static_analyzer\",\"status\":\"success\",\"hash\":\"abc123\",\"scan_type\":\"apk\",\"file_name\":\"test.apk\",\"extra\":1}"

UP_NOHASH == "{\"analyzer\":\"static_analyzer\",\"status\":\"success\",\"scan_type\":\"apk\",\"file_name\":\"test.apk\"}"

UP_HASHNUM == "{\"analyzer\":\"static_analyzer\",\"status\":\"success\",\"hash\":123,\"scan_type\":\"apk\",\"file_name\":\"test.apk\"}"

UP_HASHNULL == "{\"analyzer\":\"static_analyzer\",\"status\":\"success\",\"hash\":null,\"scan_type\":\"apk\",\"file_name\":\"test.apk\"}"

SC_OK == "{\"title\":\"Test App\",\"version\":\"1.0\",\"file_name\":\"test.apk\",\"app_name\":\"TestApp\",\"app_type\":\"apk\",\"package_name\":\"com.test.app\",\"size\":\"10MB\",\"md5\":\"abc123\",\"sha1\":\"def456\",\"sha256\":\"ghi789\",\"average_cvss\":3.5,\"security_score\":75,\"trackers\":{\"detected_trackers\":2,\"total_trackers\":407}}"

SC_NOTRK == "{\"title\":\"Test App\",\"version\":\"1.0\",\"file_name\":\"test.apk\",\"app_name\":\"TestApp\",\"app_type\":\"apk\",\"size\":\"10MB\",\"md5\":\"abc123\",\"sha1\":\"def456\",\"sha256\":\"ghi789\",\"average_cvss\":3.5,\"security_score\":75}"

SC_TRK0 == "{\"title\":\"Test App\",\"version\":\"1.0\",\"file_name\":\"test.apk\",\"app_name\":\"TestApp\",\"app_type\":\"apk\",\"size\":\"10MB\",\"md5\":\"abc123\",\"sha1\":\"def456\",\"sha256\":\"ghi789\",\"average_cvss\":3.5,\"security_score\":75,\"trackers\":{\"detected_trackers\":0,\"total_trackers\":0}}"

SC_TRKEMPTY == "{\"title\":\"Test App\",\"version\":\"1.0\",\"file_name\":\"test.apk\",\"app_name\":\"TestApp\",\"app_type\":\"apk\",\"size\":\"10MB\",\"md5\":\"abc123\",\"sha1\":\"def456\",\"sha256\":\"ghi789\",\"average_cvss\":3.5,\"security_score\":75,\"trackers\":{}}"

SC_TRKPART == "{\"title\":\"Test App\",\"version\":\"1.0\",\"file_name\":\"test.apk\",\"app_name\":\"TestApp\",\"app_type\":\"apk\",\"size\":\"10MB\",\"md5\":\"abc123\",\"sha1\":\"def456\",\"sha256\":\"ghi789\",\"average_cvss\":3.5,\"security_score\":75,\"trackers\":{\"detected_trackers\":2}}"

SC_CVSSSTR == "{\"title\":\"Test App\",\"version\":\"1.0\",\"file_name\":\"test.apk\",\"app_name\":\"TestApp\",\"app_type\":\"apk\",\"size\":\"10MB\",\"md5\":\"abc123\",\"sha1\":\"def456\",\"sha256\":\"ghi789\",\"average_cvss\":\"3.5\",\"security_score\":75}"

SC_CVSSSTRTRK == "{\"title\":\"Test App\",\"version\":\"1.0\",\"file_name\":\"test.apk\",\"app_name\":\"TestApp\",\"app_type\":\"apk\",\"size\":\"10MB\",\"md5\":\"abc123\",\"sha1\":\"def456\",\"sha256\":\"ghi789\",\"average_cvss\":\"3.5\",\"security_score\":75,\"trackers\":{\"detected_trackers\":2,\"total_trackers\":407}}"

SC_NOSCORE == "{\"title\":\"Test App\",\"version\":\"1.0\",\"file_name\":\"test.apk\",\"app_name\":\"TestApp\",\"app_type\":\"apk\",\"size\":\"10MB\",\"md5\":\"abc123\",\"sha1\":\"def456\",\"sha256\":\"ghi789\",\"average_cvss\":3.5}"

DL_OK == "{\"deleted\":\"abc123\"}"

VS_OK == "{\"title\":\"Main\",\"file\":\"a/Main.java\",\"type\":\"java\",\"data\":\"class Main {}\",\"version\":\"v4\"}"

VS_FT == "{\"title\":\"Main\",\"file\":\"a/Main.java\",\"file_type\":\"java\",\"data\":\"class Main {}\",\"version\":\"v4\"}"

VS_NOTYPE == "{\"title\":\"Main\",\"file\":\"a/Main.java\",\"data\":\"class Main {}\",\"version\":\"v4\"}"

VS_NODATA == "{\"title\":\"Main\",\"file\":\"a/Main.java\",\"type\":\"java\",\"version\":\"v4\"}"

SL_UPPER == "{\"content\":[{\"SCAN_TYPE\":\"apk\",\"ANALYZER\":\"static_analyzer\",\"TIMESTAMP\":\"2024-01-02 03:04:05\",\"MD5\":\"0123456789abcdef0123456789abcdef\",\"VERSION_NAME\":\"1.0\",\"APP_NAME\":\"TestApp\",\"PACKAGE_NAME\":\"com.example.application.name\",\"FILE_NAME\":\"test.apk\"}],\"count\":1,\"num_pages\":1}"

SL_LOWER == "{\"content\":[{\"scan_type\":\"apk\",\"analyzer\":\"static_analyzer\",\"timestamp\":\"2024-01-02 03:04:05\",\"md5\":\"0123456789abcdef0123456789abcdef\",\"version_name\":\"1.0\",\"app_name\":\"TestApp\",\"package_name\":\"com.example.application.name\",\"file_name\":\"test.apk\"}],\"count\":1,\"num_pages\":1}"

SL_NOTS == "{\"content\":[{\"SCAN_TYPE\":\"apk\",\"MD5\":\"abc123\"}]}"

SL_BADTS == "{\"content\":[{\"SCAN_TYPE\":\"apk\",\"TIMESTAMP\":7,\"MD5\":\"abc123\"}]}"

SL_MD5NULL == "{\"content\":[{\"SCAN_TYPE\":\"apk\",\"MD5\":null}]}"

SL_BADITEM == "{\"content\":[\"apk\"]}"

PDF_OK == "%PDF-1.4"

\* The objects the texts above denote.
UploadObj ==
    [k \in {"analyzer", "status", "hash", "scan_type", "file_name"} |->
        CASE k = "analyzer" -> JStr("static_analyzer")
          [] k = "status" -> JStr("success")
          [] k = "hash" -> JStr("abc123")
          [] k = "scan_type" -> JStr("apk")
          [] k = "file_name" -> JStr("test.apk")]

ScanObj ==
    [k \in {"title", "version", "file_name", "app_name", "app_type", "size", "md5",
            "sha1", "sha256", "average_cvss", "security_score"} |->
        CASE k = "title" -> JStr("Test App")
          [] k = "version" -> JStr("1.0")
          [] k = "file_name" -> JStr("test.apk")
          [] k = "app_name" -> JStr("TestApp")
          [] k = "app_type" -> JStr("apk")
          [] k = "size" -> JStr("10MB")
          [] k = "md5" -> JStr("abc123")
          [] k = "sha1" -> JStr("def456")
          [] k = "sha256" -> JStr("ghi789")
          [] k = "average_cvss" -> JFloat(35)
          [] k = "security_score" -> JNum(75)]

TrackersObj(d, n) == ("detected_trackers" :> JNum(d)) @@ ("total_trackers" :> JNum(n))

ViewObj ==
    [k \in {"title", "file", "data", "version"} |->
        CASE k = "title" -> JStr("Main")
          [] k = "file" -> JStr("a/Main.java")
          [] k = "data" -> JStr("class Main {}")
          [] k = "version" -> JStr("v4")]

ItemValues ==
    <<JStr("apk"), JStr("static_analyzer"), JStr("2024-01-02 03:04:05"),
      JStr("0123456789abcdef0123456789abcdef"), JStr("1.0"), JStr("TestApp"),
      JStr("com.example.application.name"), JStr("test.apk")>>

UpperKeys ==
    <<"SCAN_TYPE", "ANALYZER", "TIMESTAMP", "MD5", "VERSION_NAME", "APP_NAME",
      "PACKAGE_NAME", "FILE_NAME">>

LowerKeys ==
    <<"scan_type", "analyzer", "timestamp", "md5", "version_name", "app_name",
      "package_name", "file_name">>

ItemObj(keys) ==
    [k \in {keys[i] : i \in 1..8} |-> ItemValues[CHOOSE i \in 1..8 : keys[i] = k]]

Without(o, key) == [k \in DOMAIN o \ {key} |-> o[k]]

ScansObj(items) == ("content" :> JArr(items)) @@ ("count" :> JNum(1)) @@ ("num_pages" :> JNum(1))

\* json.loads(text) / response.json(): the value, or ValueError when the text
\* is not JSON (the empty text included).
json_loads(text) ==
    CASE text = B_EMPTY -> Raise(PyExc("ValueError", "Expecting value"))
      [] text = B_TEXT -> Raise(PyExc("ValueError", "Expecting value"))
      [] text = PDF_OK -> Raise(PyExc("ValueError", "Expecting value"))
      [] text = B_ERR -> Return(JObj("error" :> JStr("Invalid hash")))
      [] text = B_ERRNUM -> Return(JObj("error" :> JNum(42)))
      [] text = B_NOERR -> Return(JObj(NoObj))
      [] text = B_ARR -> Return(JArr(<<>>))
      [] text = B_SCALAR -> Return(JNum(42))
      [] text = UP_OK -> Return(JObj(UploadObj))
      [] text = UP_EXTRA -> Return(JObj(UploadObj @@ ("extra" :> JNum(1))))
      [] text = UP_NOHASH -> Return(JObj(Without(UploadObj, "hash")))
      [] text = UP_HASHNUM -> Return(JObj(("hash" :> JNum(123)) @@ UploadObj))
      [] text = UP_HASHNULL -> Return(JObj(("hash" :> JNull) @@ UploadObj))
      [] text = SC_OK ->
            Return(JObj(ScanObj @@ ("package_name" :> JStr("com.test.app"))
                        @@ ("trackers" :> JObj(TrackersObj(2, 407)))))
      [] text = SC_NOTRK -> Return(JObj(ScanObj))
      [] text = SC_TRK0 -> Return(JObj(ScanObj @@ ("trackers" :> JObj(TrackersObj(0, 0)))))
      [] text = SC_TRKEMPTY -> Return(JObj(ScanObj @@ ("trackers" :> JObj(NoObj))))
      [] text = SC_TRKPART ->
            Return(JObj(ScanObj @@ ("trackers" :> JObj("detected_trackers" :> JNum(2)))))
      [] text = SC_CVSSSTR -> Return(JObj(("average_cvss" :> JStr("3.5")) @@ ScanObj))
      [] text = SC_CVSSSTRTRK ->
            Return(JObj(("average_cvss" :> JStr("3.5")) @@ ScanObj
                        @@ ("trackers" :> JObj(TrackersObj(2, 407)))))
      [] text = SC_NOSCORE -> Return(JObj(Without(ScanObj, "security_score")))
      [] text = DL_OK -> Return(JObj("deleted" :> JStr("abc123")))
      [] text = VS_OK -> Return(JObj(ViewObj @@ ("type" :> JStr("java"))))
      [] text = VS_FT -> Return(JObj(ViewObj @@ ("file_type" :> JStr("java"))))
      [] text = VS_NOTYPE -> Return(JObj(ViewObj))
      [] text = VS_NODATA -> Return(JObj(Without(ViewObj, "data") @@ ("type" :> JStr("java"))))
      [] text = SL_UPPER -> Return(JObj(ScansObj(<<JObj(ItemObj(UpperKeys))>>)))
      [] text = SL_LOWER -> Return(JObj(ScansObj(<<JObj(ItemObj(LowerKeys))>>)))
      [] text = SL_NOTS ->
            Return(JObj("content" :>
                JArr(<<JObj(("SCAN_TYPE" :> JStr("apk")) @@ ("MD5" :> JStr("abc123")))>>)))
      [] text = SL_BADTS ->
            Return(JObj("content" :>
                JArr(<<JObj(("SCAN_TYPE" :> JStr("apk")) @@ ("TIMESTAMP" :> JNum(7))
                            @@ ("MD5" :> JStr("abc123")))>>)))
      [] text = SL_MD5NULL ->
            Return(JObj("content" :>
                JArr(<<JObj(("SCAN_TYPE" :> JStr("apk")) @@ ("MD5" :> JNull))>>)))
      [] text = SL_BADITEM -> Return(JObj("content" :> JArr(<<JStr("apk")>>)))

GenericBodies == {B_EMPTY, B_TEXT, B_ERR, B_ERRNUM, B_NOERR, B_ARR, B_SCALAR}

----------------------------------------------------------------------------
(* mobsf_core/response.py: the decoders (from_dict) *)

\* What Python raises for data.get(...) on a value that is not a dict.
NoGet(data) == Raise(PyExc("AttributeError", "object has no attribute 'get'"))

\* What Python raises for data["key"] on a value that is not a dict.
NoIndex(data) == Raise(PyExc("TypeError", "object is not subscriptable"))

KeyError(keys, data) ==
    Raise(PyExc("KeyError", CHOOSE k \in keys : k \notin DOMAIN data.o))

\* A variant that reads the field with data["error"].
ErrorResponse_from_dict_strict(data) ==
    IF data.t # "obj" THEN NoGet(data)
    ELSE IF ~Has(data, {"error"}) THEN KeyError({"error"}, data)
    ELSE Return([error |-> data.o["error"]])

ErrorResponse_from_dict(data) ==
    IF data.t # "obj" THEN NoGet(data)
    ELSE Return([error |-> Get(data, "error", JStr("Unknown error"))])

UploadKeys == {"analyzer", "status", "hash", "scan_type", "file_name"}

\* A decoder that would take the hash from the file name (not the code's).
UploadResponse_from_dict_wrong_hash(data) ==
    IF data.t # "obj" THEN NoIndex(data)
    ELSE IF ~Has(data, UploadKeys) THEN KeyError(UploadKeys, data)
    ELSE Return([analyzer |-> data.o["analyzer"],
                 status |-> data.o["status"],
                 hash |-> data.o["file_name"],
                 scan_type |-> data.o["scan_type"],
                 file_name |-> data.o["file_name"]])

UploadResponse_from_dict(data) ==
    IF data.t # "obj" THEN NoIndex(data)
    ELSE IF ~Has(data, UploadKeys) THEN KeyError(UploadKeys, data)
    ELSE Return([analyzer |-> data.o["analyzer"],
                 status |-> data.o["status"],
                 hash |-> data.o["hash"],
                 scan_type |-> data.o["scan_type"],
                 file_name |-> data.o["file_name"]])

TrackersKeys == {"detected_trackers", "total_trackers"}

\* A decoder that would swap the two counts (not the code's).
Trackers_from_dict_swapped(data) ==
    IF data.t # "obj" THEN NoIndex(data)
    ELSE IF ~Has(data, TrackersKeys) THEN KeyError(TrackersKeys, data)
    ELSE Return([detected_trackers |-> data.o["total_trackers"],
                 total_trackers |-> data.o["detected_trackers"]])

Trackers_from_dict(data) ==
    IF data.t # "obj" THEN NoIndex(data)
    ELSE IF ~Has(data, TrackersKeys) THEN KeyError(TrackersKeys, data)
    ELSE Return([detected_trackers |-> data.o["detected_trackers"],
                 total_trackers |-> data.o["total_trackers"]])

ScanKeys ==
    {"title", "version", "file_name", "app_name", "app_type", "size", "md5", "sha1",
     "sha256", "average_cvss", "security_score"}

ScanResponse_from_dict(data) ==
    IF data.t # "obj" THEN NoGet(data)
    ELSE
      LET trackers_data == Get(data, "trackers", JNull)
          trackers == IF Truthy(trackers_data) THEN Trackers_from_dict(trackers_data)
                      ELSE [ok |-> TRUE, val |-> None, exc |-> NoExc]
      IN  IF ~trackers.ok THEN trackers
          ELSE IF ~Has(data, ScanKeys) THEN KeyError(ScanKeys, data)
          ELSE Return([title |-> data.o["title"],
                       version |-> data.o["version"],
                       file_name |-> data.o["file_name"],
                       app_name |-> data.o["app_name"],
                       app_type |-> data.o["app_type"],
                       package_name |-> Get(data, "package_name", JNull),
                       size |-> data.o["size"],
                       md5 |-> data.o["md5"],
                       sha1 |-> data.o["sha1"],
                       sha256 |-> data.o["sha256"],
                       average_cvss |-> data.o["average_cvss"],
                       security_score |-> data.o["security_score"],
                       trackers |-> trackers.val])

JDate(s) == [t |-> "datetime", s |-> s, n |-> 0, o |-> NoObj, a |-> <<>>]

\* A parser that would take no string for a date (not the code's).
date_parser_parse_never(v) ==
    IF v.t # "str" THEN Raise(PyExc("TypeError", "Parser must be a string"))
    ELSE Raise(PyExc("ValueError", "String does not contain a date"))

\* dateutil.parser.parse: a datetime for a date string; ValueError for any
\* other string ("" included); TypeError for a value that is no string.
date_parser_parse(v) ==
    IF v.t # "str" THEN Raise(PyExc("TypeError", "Parser must be a string"))
    ELSE IF v.s = "2024-01-02 03:04:05" THEN Return(JDate(v.s))
    ELSE Raise(PyExc("ValueError", "String does not contain a date"))

\* data.get(UPPER, data.get(lower, ""))
Get2(data, upper, lower) == Get(data, upper, Get(data, lower, JStr("")))

\* A decoder of scan entries that would read the upper-case keys only (not the
\* code's).
ScanItem_from_dict_upper_only(data, now) ==
    IF data.t # "obj" THEN NoGet(data)
    ELSE
      LET parsed == date_parser_parse(Get(data, "TIMESTAMP", JStr("")))
          timestamp == IF parsed.ok THEN parsed.val[1] ELSE JDate(now)
      IN  Return([scan_type |-> Get(data, "SCAN_TYPE", JStr("")),
                  analyzer |-> Get(data, "ANALYZER", JStr("")),
                  timestamp |-> timestamp,
                  md5 |-> Get(data, "MD5", JStr("")),
                  version_name |-> Get(data, "VERSION_NAME", JStr("")),
                  app_name |-> Get(data, "APP_NAME", JStr("")),
                  package_name |-> Get(data, "PACKAGE_NAME", JStr("")),
                  file_name |-> Get(data, "FILE_NAME", JStr(""))])

\* `now` is what datetime.now() returns at the time of the call.
ScanItem_from_dict(data, now) ==
    IF data.t # "obj" THEN NoGet(data)
    ELSE
      LET timestamp_str == Get2(data, "TIMESTAMP", "timestamp")
          parsed == date_parser_parse(timestamp_str)
          timestamp == IF parsed.ok THEN parsed.val[1] ELSE JDate(now)
      IN  Return([scan_type |-> Get2(data, "SCAN_TYPE", "scan_type"),
                  analyzer |-> Get2(data, "ANALYZER", "analyzer"),
                  timestamp |-> timestamp,
                  md5 |-> Get2(data, "MD5", "md5"),
                  version_name |-> Get2(data, "VERSION_NAME", "version_name"),
                  app_name |-> Get2(data, "APP_NAME", "app_name"),
                  package_name |-> Get2(data, "PACKAGE_NAME", "package_name"),
                  file_name |-> Get2(data, "FILE_NAME", "file_name")])

ScansResponse_from_dict(data, now) ==
    IF data.t # "obj" THEN NoGet(data)
    ELSE
      LET content_data == Get(data, "content", JArr(<<>>))
          items == [i \in 1..Len(content_data.a) |->
                        ScanItem_from_dict(content_data.a[i], now)]
          bad == {i \in 1..Len(content_data.a) : ~items[i].ok}
          content == [i \in 1..Len(content_data.a) |-> items[i].val[1]]
      IN  IF content_data.t \in {"num", "null"}
            THEN Raise(PyExc("TypeError", "object is not iterable"))
          ELSE IF content_data.t \in {"str", "obj"} /\ Truthy(content_data)
            THEN NoGet(content_data)
          ELSE IF bad # {}
            THEN items[CHOOSE i \in bad : \A j \in bad : i <= j]
          ELSE Return([content |-> content,
                       count |-> Get(data, "count", JNum(Len(content))),
                       num_pages |-> Get(data, "num_pages", JNum(1))])

DeleteScanResponse_from_dict(data) ==
    IF data.t # "obj" THEN NoIndex(data)
    ELSE IF ~Has(data, {"deleted"}) THEN KeyError({"deleted"}, data)
    ELSE Return([deleted |-> data.o["deleted"]])

ViewSourceKeys == {"title", "file", "data", "version"}

ViewSourceResponse_from_dict(data) ==
    IF data.t # "obj" THEN NoIndex(data)
    ELSE IF ~Has(data, ViewSourceKeys) THEN KeyError(ViewSourceKeys, data)
    ELSE Return([title |-> data.o["title"],
                 file |-> data.o["file"],
                 file_type |-> Get(data, "type", Get(data, "file_type", JStr(""))),
                 data |-> data.o["data"],
                 version |-> data.o["version"]])

----------------------------------------------------------------------------
(* str() and f-string formatting *)

Digits == <<"0", "1", "2", "3", "4", "5", "6", "7", "8", "9">>

RECURSIVE NatToStr(_)
NatToStr(n) == IF n < 10 THEN Digits[n + 1] ELSE NatToStr(n \div 10) \o Digits[(n % 10) + 1]

\* str(v), as an f-string renders a value
PyStr(v) ==
    CASE v.t = "str" -> v.s
      [] v.t = "num" -> NatToStr(v.n)
      [] v.t = "float" -> NatToStr(v.n \div 10) \o "." \o NatToStr(v.n % 10)
      [] v.t = "null" -> "None"
      [] v.t = "datetime" -> v.s
      [] v.t = "obj" -> "{..}"
      [] v.t = "arr" -> "[..]"

\* mobsf_core/error.py: MobsfError._format_message / __str__
format_message(e) ==
    IF Truthy(e.status_code)
    THEN e.cause \o "(" \o PyStr(e.status_code) \o "): " \o PyStr(e.message)
    ELSE e.cause \o ": " \o PyStr(e.message)

\* cli/error.py: AppError(message)
AppError(message) ==
    [type |-> "AppError", cause |-> "", message |-> JStr(message), status_code |-> JNull]

\* A conversion that would keep the message only (not the code's).
from_mobsf_error_message_only(e) == AppError(PyStr(e.message))

\* cli/error.py: AppError.from_mobsf_error
from_mobsf_error(e) == AppError(format_message(e))

----------------------------------------------------------------------------
(* Python str: len(s) and the slice s[:n] *)

\* The texts whose characters the model knows: the field values of the scan
\* entries in use.
Texts ==
    {<<"0", "1", "2", "3", "4", "5", "6", "7", "8", "9", "a", "b", "c", "d", "e", "f", "0", "1", "2", "3", "4", "5", "6", "7", "8", "9", "a", "b", "c", "d", "e", "f">>,
     <<"c", "o", "m", ".", "e", "x", "a", "m", "p", "l", "e", ".", "a", "p", "p", "l", "i", "c", "a", "t", "i", "o", "n", ".", "n", "a", "m", "e">>,
     <<"s", "t", "a", "t", "i", "c", "_", "a", "n", "a", "l", "y", "z", "e", "r">>,
     <<"T", "e", "s", "t", "A", "p", "p">>,
     <<"t", "e", "s", "t", ".", "a", "p", "k">>,
     <<"a", "b", "c", "1", "2", "3">>,
     <<"a", "p", "k">>,
     <<"1", ".", "0">>}

\* Every prefix of a known text, as its characters.
KnownChars == UNION {{SubSeq(t, 1, n) : n \in 0..Len(t)} : t \in Texts}

RECURSIVE Join(_)
Join(c) == IF c = <<>> THEN "" ELSE c[1] \o Join(Tail(c))

\* The characters of a string.
Chars(s) == CHOOSE c \in KnownChars : Join(c) = s

\* len(s)
StrLen(s) == Len(Chars(s))

\* s[:n]
Slice(s, n) == Join(SubSeq(Chars(s), 1, IF StrLen(s) < n THEN StrLen(s) ELSE n))

\* len(v) of any value: TypeError for None and numbers.
PyLen(v) ==
    CASE v.t = "str" -> Return(StrLen(v.s))
      [] v.t = "arr" -> Return(Len(v.a))
      [] v.t = "obj" -> Return(Cardinality(DOMAIN v.o))
      [] OTHER -> Raise(PyExc("TypeError", "object has no len()"))

\* A cell that would be cut only when longer than n + 1 (not the code's).
Truncate_late(v, n, suffix) ==
    LET length == PyLen(v)
    IN  IF ~length.ok THEN length
        ELSE IF length.val[1] <= n + 1 THEN Return(v)
        ELSE IF v.t = "str" THEN Return(JStr(Slice(v.s, n) \o suffix))
        ELSE Raise(PyExc("TypeError", "unsupported operand or unhashable slice"))

\* `v[:n] + suffix if len(v) > n else v`, a cell of the scans table (suffix ""
\* stands for the plain `v[:n]`).
Truncate(v, n, suffix) ==
    LET length == PyLen(v)
    IN  IF ~length.ok THEN length
        ELSE IF length.val[1] <= n THEN Return(v)
        ELSE IF v.t = "str" THEN Return(JStr(Slice(v.s, n) \o suffix))
        ELSE IF v.t = "arr" /\ suffix = "" THEN Return(JArr(SubSeq(v.a, 1, n)))
        ELSE Raise(PyExc("TypeError", "unsupported operand or unhashable slice"))

\* ScansResponse.__str__, one row: the cells handed to tabulate.
ScanItem_row(item) ==
    LET md5 == Truncate(item.md5, 12, "...")
        app_name == Truncate(item.app_name, 20, "")
        package_name == Truncate(item.package_name, 20, "")
        file_name == Truncate(item.file_name, 20, "")
    IN  IF ~md5.ok THEN md5
        ELSE IF ~app_name.ok THEN app_name
        ELSE IF ~package_name.ok THEN package_name
        ELSE IF ~file_name.ok THEN file_name
        ELSE Return(<<item.scan_type, item.analyzer, JStr(item.timestamp.s), md5.val[1],
                      item.version_name, app_name.val[1], package_name.val[1],
                      file_name.val[1]>>)

\* ScansResponse.__str__: "No scans found.\n" for an empty list, else the rows
\* of the table in the order of the entries (tabulate then draws the grid).
ScansResponse_str(response) ==
    LET rows == [i \in 1..Len(response.content) |-> ScanItem_row(response.content[i])]
        bad == {i \in 1..Len(response.content) : ~rows[i].ok}
    IN  IF response.content = <<>> THEN Return(JStr("No scans found.\n"))
        ELSE IF bad # {} THEN rows[CHOOSE i \in bad : \A j \in bad : i <= j]
        ELSE Return([i \in 1..Len(response.content) |-> rows[i].val[1]])

----------------------------------------------------------------------------
(* mobsf_core/client.py: the transport (requests.Session with a urllib3     *)
(* Retry mounted on it) and what a client method does with its answer.     *)

\* Retry(total=3, ...)
RetryTotal == 3

\* Retry(status_forcelist=[429, 500, 502, 503, 504], ...)
status_forcelist == {429, 500, 502, 503, 504}

\* Retry(allowed_methods=[...], ...)
allowed_methods == {"HEAD", "GET", "POST", "PUT", "DELETE", "OPTIONS", "TRACE"}

\* A transport that would send again after any error status (not the code's).
is_retry_any_error(method, status_code) ==
    method \in allowed_methods /\ status_code >= 400

\* urllib3 Retry.is_retry: a response with this status to a request with this
\* method is answered by sending the request again.
is_retry(method, status_code) ==
    method \in allowed_methods /\ status_code \in status_forcelist

NoReply ==
    [kind |-> "none", status_code |-> 0, text |-> "", body_ok |-> TRUE, exc |-> NoExc]

\* A requests.Response. body_ok is FALSE when reading the body will fail (the
\* connection breaks while the body is streamed).
Response(status_code, text, body_ok) ==
    [kind |-> "response", status_code |-> status_code, text |-> text,
     body_ok |-> body_ok, exc |-> NoExc]

\* session.get / session.post raised a requests.RequestException.
RequestException(name) ==
    [kind |-> "exception", status_code |-> 0, text |-> "", body_ok |-> TRUE,
     exc |-> PyExc(name, name)]

\* response.json() / response.text read the body.
response_json(response) ==
    IF ~response.body_ok THEN Raise(PyExc("ChunkedEncodingError", "Connection broken"))
    ELSE json_loads(response.text)

\* Mobsf._handle_error_response: always raises.
handle_error_response(response) ==
    LET error_data == response_json(response)
        error_resp == IF error_data.ok THEN ErrorResponse_from_dict(error_data.val[1])
                      ELSE error_data
        status_code == JNum(response.status_code)
    IN  IF error_resp.ok
          THEN Raise(MobsfError(INVALID_HTTP_RESPONSE, error_resp.val[1].error, status_code))
        ELSE IF error_resp.exc.type \in {"ValueError", "KeyError"}
          THEN Raise(MobsfError(INVALID_HTTP_RESPONSE,
                                IF response.text # "" THEN JStr(response.text)
                                ELSE JStr("HTTP " \o NatToStr(response.status_code)),
                                status_code))
        ELSE Raise(error_resp.exc)

\* A handler that would attach the last status to a transport error (not the
\* code's).
http_client_error_with_status(reply) ==
    Raise(MobsfError(HTTP_CLIENT_ERROR, reply.exc.message, JNum(reply.status_code)))

\* except requests.RequestException as e: raise MobsfError(HTTP_CLIENT_ERROR, str(e))
http_client_error(reply) == Raise(MobsfError(HTTP_CLIENT_ERROR, reply.exc.message, JNull))

\* An upload that would report a missing file as a transport failure (not the
\* code's).
upload_open_wrong_cause(file) ==
    CASE file = "missing" ->
            Raise(MobsfError(HTTP_CLIENT_ERROR, JStr("File not found: app.apk"), JNull))
      [] file = "dir" ->
            Raise(MobsfError(HTTP_CLIENT_ERROR, JStr("Not a file: app.apk"), JNull))
      [] file = "unreadable" -> Raise(MobsfError(IO_ERROR, JStr("Permission denied"), JNull))
      [] file = "ok" -> Return(JNull)

\* Mobsf.upload, before the request: Path.exists, Path.is_file, open(path, "rb").
\* The file at file_path is "missing", a "dir", "unreadable" or "ok".
upload_open(file) ==
    CASE file = "missing" -> Raise(MobsfError(IO_ERROR, JStr("File not found: app.apk"), JNull))
      [] file = "dir" -> Raise(MobsfError(IO_ERROR, JStr("Not a file: app.apk"), JNull))
      [] file = "unreadable" -> Raise(MobsfError(IO_ERROR, JStr("Permission denied"), JNull))
      [] file = "ok" -> Return(JNull)

\* Mobsf.upload, after the request
upload_return(reply) ==
    IF reply.kind = "exception" THEN http_client_error(reply)
    ELSE IF reply.status_code # 200 THEN handle_error_response(reply)
    ELSE LET data == response_json(reply)
         IN  IF data.ok THEN UploadResponse_from_dict(data.val[1]) ELSE data

\* Mobsf.scans, after the request
scans_return(reply, now) ==
    IF reply.kind = "exception" THEN http_client_error(reply)
    ELSE IF reply.status_code # 200 THEN handle_error_response(reply)
    ELSE LET data == response_json(reply)
         IN  IF data.ok THEN ScansResponse_from_dict(data.val[1], now) ELSE data

\* Mobsf.scan, after the request
scan_return(reply) ==
    IF reply.kind = "exception" THEN http_client_error(reply)
    ELSE IF reply.status_code # 200 THEN handle_error_response(reply)
    ELSE LET data == response_json(reply)
         IN  IF data.ok THEN ScanResponse_from_dict(data.val[1]) ELSE data

\* Mobsf.delete_scan, after the request
delete_scan_return(reply) ==
    IF reply.kind = "exception" THEN http_client_error(reply)
    ELSE IF reply.status_code # 200 THEN handle_error_response(reply)
    ELSE LET data == response_json(reply)
         IN  IF data.ok THEN DeleteScanResponse_from_dict(data.val[1]) ELSE data

\* Mobsf.view_source, after the request
view_source_return(reply) ==
    IF reply.kind = "exception" THEN http_client_error(reply)
    ELSE IF reply.status_code # 200 THEN handle_error_response(reply)
    ELSE LET data == response_json(reply)
         IN  IF data.ok THEN ViewSourceResponse_from_dict(data.val[1]) ELSE data

\* Mobsf.report_json, after the request: response.text
report_json_return(reply) ==
    IF reply.kind = "exception" THEN http_client_error(reply)
    ELSE IF reply.status_code # 200 THEN handle_error_response(reply)
    ELSE Return(JStr(reply.text))

\* The result of a method that also writes a file: what it returns or raises,
\* and the file afterwards (None: no such file).
WithFile(res, file) == [res |-> res, file |-> file]

\* A download that would open the destination before it looks at the status
\* (not the code's).
report_pdf_return_open_first(reply, file, io) ==
    IF reply.kind = "exception" THEN WithFile(http_client_error(reply), file)
    ELSE IF io = "open_fail"
      THEN WithFile(Raise(MobsfError(IO_ERROR, JStr("Permission denied"), JNull)), file)
    ELSE IF reply.status_code # 200 THEN WithFile(handle_error_response(reply), Some(""))
    ELSE IF ~reply.body_ok
      THEN WithFile(Raise(MobsfError(IO_ERROR, JStr("Connection broken"), JNull)), Some(""))
    ELSE IF io = "write_fail"
      THEN WithFile(Raise(MobsfError(IO_ERROR, JStr("No space left on device"), JNull)),
                    Some(""))
    ELSE WithFile(Return(JNull), Some(reply.text))

\* Mobsf.report_pdf, after the request. `file` is the destination before the
\* call, `io` what the file system does: "ok", "open_fail" (open raises) or
\* "write_fail" (a write raises after the file was opened and truncated).
\* requests.RequestException is a subclass of IOError, so a connection that
\* breaks inside iter_content is caught by `except IOError`.
report_pdf_return(reply, file, io) ==
    IF reply.kind = "exception" THEN WithFile(http_client_error(reply), file)
    ELSE IF reply.status_code # 200 THEN WithFile(handle_error_response(reply), file)
    ELSE IF io = "open_fail"
      THEN WithFile(Raise(MobsfError(IO_ERROR, JStr("Permission denied"), JNull)), file)
    ELSE IF ~reply.body_ok
      THEN WithFile(Raise(MobsfError(IO_ERROR, JStr("Connection broken"), JNull)), Some(""))
    ELSE IF io = "write_fail"
      THEN WithFile(Raise(MobsfError(IO_ERROR, JStr("No space left on device"), JNull)),
                    Some(""))
    ELSE WithFile(Return(JNull), Some(reply.text))

\* Mobsf.write_report_json, after report_json's request
write_report_json_return(reply, file, io) ==
    LET json_text == report_json_return(reply)
    IN  IF ~json_text.ok THEN WithFile(json_text, file)
        ELSE IF io = "open_fail"
          THEN WithFile(Raise(MobsfError(IO_ERROR, JStr("Permission denied"), JNull)), file)
        ELSE IF io = "write_fail"
          THEN WithFile(Raise(MobsfError(IO_ERROR, JStr("No space left on device"), JNull)),
                        Some(""))
        ELSE WithFile(json_text, Some(json_text.val[1].s))

----------------------------------------------------------------------------
(* cli/app.py: the CI thresholds *)

IsNumber(v) == v.t \in {"num", "float"}

\* The value of an int or a float, in tenths.
NumVal(v) == IF v.t = "float" THEN v.n ELSE v.n * 10

\* Python's a > b: a bool for two numbers, TypeError otherwise.
Greater(a, b) ==
    IF IsNumber(a) /\ IsNumber(b) THEN Return(NumVal(a) > NumVal(b))
    ELSE Raise(PyExc("TypeError", "'>' not supported between these types"))

\* Python's a < b
Less(a, b) ==
    IF IsNumber(a) /\ IsNumber(b) THEN Return(NumVal(a) < NumVal(b))
    ELSE Raise(PyExc("TypeError", "'<' not supported between these types"))

\* App.ci, "Validate scores": returns None or raises.
ci_validate(scan_response, cvss, trackers, security) ==
    LET cvss_high == Greater(scan_response.average_cvss, cvss)
        security_low == Less(scan_response.security_score, security)
        detected == scan_response.trackers[1].detected_trackers
        trackers_high == Greater(detected, trackers)
    IN  IF ~cvss_high.ok THEN cvss_high
        ELSE IF cvss_high.val[1]
          THEN Raise(AppError("CVSS score [" \o PyStr(scan_response.average_cvss)
                              \o "] is to high. Max: " \o PyStr(cvss) \o "!"))
        ELSE IF ~security_low.ok THEN security_low
        ELSE IF security_low.val[1]
          THEN Raise(AppError("Security score [" \o PyStr(scan_response.security_score)
                              \o "] is to low. Min: " \o PyStr(security) \o "!"))
        ELSE IF scan_response.trackers = None THEN Return(JNull)
        ELSE IF ~trackers_high.ok THEN trackers_high
        ELSE IF trackers_high.val[1]
          THEN Raise(AppError("Trackers score [" \o PyStr(detected)
                              \o "] is to high. Max: " \o PyStr(trackers) \o "!"))
        ELSE Return(JNull)

----------------------------------------------------------------------------
(* The run: state *)

VARIABLES
    args,        \* the parsed command line
    phase,       \* where the run is: "app", "net", "ret", "raised", "main", "exit"
    calls,       \* the client methods the workflow has called, in order
    requests,    \* the session.get / session.post calls made, in order
    done,        \* the client methods that returned, in order
    net,         \* the transport's state for the current request
    reply,       \* what the transport handed to the client method
    res,         \* what the client methods returned
    fs,          \* the report files on disk
    client_exc,  \* the exception that left the client method
    app_exc,     \* the exception that left the workflow method
    stderr,      \* the line main printed to the error stream
    exit,        \* the exit status
    call,        \* a direct call of a library function: the function and its inputs
    ret          \* what the direct calls returned, in order

vars ==
    <<args, phase, calls, requests, done, net, reply, res, fs, client_exc, app_exc,
      stderr, exit, call, ret>>

\* The variables of a direct library call; a run of the CLI makes none.
lib == <<call, ret>>

NoCall == [fn |-> "none", data |-> <<>>]

\* A CI workflow that would fetch the PDF report before scanning (not the code's).
ci_plan_report_first == <<"upload", "report_pdf", "scan", "write_report_json">>

\* cli/main.py execute, cli/app.py: the client methods each command calls.
ci_plan == <<"upload", "scan", "report_pdf", "write_report_json">>

play_plan == <<"upload", "scan">>

Plan(command) ==
    CASE command = "upload" -> <<"upload">>
      [] command = "scan" -> <<"scan">>
      [] command = "scans" -> <<"scans">>
      [] command = "report_pdf" -> <<"report_pdf">>
      [] command = "report_json_stdout" -> <<"report_json">>
      [] command = "report_json" -> <<"write_report_json">>
      [] command = "delete" -> <<"delete_scan">>
      [] command = "play" -> play_plan
      [] command = "ci" -> ci_plan
      [] command = "source" -> <<"view_source">>

Commands ==
    {"upload", "scan", "scans", "report_pdf", "report_json_stdout", "report_json",
     "delete", "play", "ci", "source"}

\* The states of the file to upload.
FileStates == {"missing", "dir", "unreadable", "ok"}

\* The CI limits tried: around the scores 3.5 / 75 / 2 of the scan bodies.
CvssLimits == {JFloat(30), JFloat(35), JFloat(39)}

SecurityLimits == {JNum(71), JNum(75), JNum(80)}

TrackerLimits == {JNum(0), JNum(2)}

\* cli/arguments.py: the defaults of -c, -u, -t
DefaultArgs(command) ==
    [command |-> command, file |-> "ok", re_scan |-> FALSE, cvss |-> JFloat(39),
     security |-> JNum(71), trackers |-> JNum(0)]

\* Each argument varies only for the commands that take it (re_scan only adds a
\* form field to the scan request: it varies for scan and play).
Args ==
    {DefaultArgs(c) : c \in Commands \ {"upload", "scan", "play", "ci"}}
    \cup {[DefaultArgs("upload") EXCEPT !.file = f] : f \in FileStates}
    \cup {[DefaultArgs("scan") EXCEPT !.re_scan = r] : r \in BOOLEAN}
    \cup {[DefaultArgs("play") EXCEPT !.file = f, !.re_scan = r] :
            f \in FileStates, r \in BOOLEAN}
    \cup {[DefaultArgs("ci") EXCEPT !.file = f, !.cvss = cv, !.security = se,
                                   !.trackers = tr] :
            f \in FileStates, cv \in CvssLimits, se \in SecurityLimits,
            tr \in TrackerLimits}

\* What a report file left by an earlier run holds.
OLD == "old report"

\* The report files on disk before the run: the destination of a report may
\* exist already.
Files(command) ==
    CASE command = "report_pdf" -> {[pdf |-> f, json |-> None] : f \in {None, Some(OLD)}}
      [] command = "report_json" -> {[pdf |-> None, json |-> f] : f \in {None, Some(OLD)}}
      [] command = "ci" -> {[pdf |-> f, json |-> f] : f \in {None, Some(OLD)}}
      [] OTHER -> {[pdf |-> None, json |-> None]}

Idle == [sends |-> 0, total |-> RetryTotal, method |-> "", stream |-> FALSE, last |-> -1]

NoRes ==
    [upload |-> None, scans |-> None, scan |-> None, delete_scan |-> None,
     report_json |-> None, view_source |-> None]

Init ==
    /\ args \in Args
    /\ phase = "app"
    /\ calls = <<>>
    /\ requests = <<>>
    /\ done = <<>>
    /\ net = Idle
    /\ reply = NoReply
    /\ res = NoRes
    /\ fs \in Files(args.command)
    /\ client_exc = NoExc
    /\ app_exc = NoExc
    /\ stderr = None
    /\ exit = None
    /\ call = NoCall
    /\ ret = <<>>

----------------------------------------------------------------------------
(* The run: the workflow calls a client method, which sends its request *)

\* The client method the workflow calls next ("none": no more calls).
NextOp ==
    IF phase = "app" /\ Len(done) < Len(Plan(args.command))
    THEN Plan(args.command)[Len(done) + 1] ELSE "none"

\* The client method in progress.
CurOp == IF phase \in {"net", "ret"} THEN calls[Len(calls)] ELSE "none"

\* cli/app.py: the arguments of the call. scan, report and source take them from
\* the command line; play and ci pass the fields of this run's upload response.
CliHash == JStr("abc123")

HashArg == IF args.command \in {"play", "ci"} THEN res.upload[1].hash ELSE CliHash

ScanTypeArg == IF args.command \in {"play", "ci"} THEN res.upload[1].scan_type ELSE JStr("apk")

FileNameArg ==
    IF args.command \in {"play", "ci"} THEN res.upload[1].file_name ELSE JStr("test.apk")

\* session.post(url, data=data): requests sends the dict as a form. A field
\* whose value is None is left out of the form; any other value goes out as
\* its text (no list or dict reaches a form here).
encode_params(data) ==
    [k \in {f \in DOMAIN data : data[f].t # "null"} |-> JStr(PyStr(data[k]))]

\* session.post / session.get: the request goes out.
Send(op, method, api, stream, data) ==
    /\ calls' = Append(calls, op)
    /\ requests' = Append(requests, [op |-> op, method |-> method, api |-> api,
                                     data |-> encode_params(data)])
    /\ net' = [sends |-> 1, total |-> RetryTotal, method |-> method, stream |-> stream,
               last |-> -1]
    /\ reply' = NoReply
    /\ phase' = "net"
    /\ UNCHANGED <<lib, args, done, res, fs, client_exc, app_exc, stderr, exit>>

\* Mobsf.upload up to session.post
upload ==
    /\ NextOp = "upload"
    /\ LET opened == upload_open(args.file)
       IN  IF opened.ok
           THEN Send("upload", "POST", "api/v1/upload", FALSE, "file" :> JStr("app.apk"))
           ELSE /\ calls' = Append(calls, "upload")
                /\ client_exc' = opened.exc
                /\ phase' = "raised"
                /\ UNCHANGED <<lib, args, requests, done, net, reply, res, fs, app_exc, stderr,
                               exit>>

\* Mobsf.scans up to session.get
scans ==
    /\ NextOp = "scans"
    /\ Send("scans", "GET", "api/v1/scans", FALSE, NoObj)

\* Mobsf.scan up to session.post
scan ==
    /\ NextOp = "scan"
    /\ LET data == ("scan_type" :> ScanTypeArg) @@ ("file_name" :> FileNameArg)
                   @@ ("hash" :> HashArg)
       IN  Send("scan", "POST", "api/v1/scan", FALSE,
                IF args.re_scan THEN data @@ ("re_scan" :> JStr("1")) ELSE data)

\* Mobsf.delete_scan up to session.post
delete_scan ==
    /\ NextOp = "delete_scan"
    /\ Send("delete_scan", "POST", "api/v1/delete_scan", FALSE, "hash" :> HashArg)

\* Mobsf.report_pdf up to session.post (stream=True)
report_pdf ==
    /\ NextOp = "report_pdf"
    /\ Send("report_pdf", "POST", "api/v1/download_pdf", TRUE, "hash" :> HashArg)

\* Mobsf.report_json up to session.post
report_json ==
    /\ NextOp = "report_json"
    /\ Send("report_json", "POST", "api/v1/report_json", FALSE, "hash" :> HashArg)

\* Mobsf.write_report_json up to report_json's session.post
write_report_json ==
    /\ NextOp = "write_report_json"
    /\ Send("write_report_json", "POST", "api/v1/report_json", FALSE, "hash" :> HashArg)

\* Mobsf.view_source up to session.post
view_source ==
    /\ NextOp = "view_source"
    /\ Send("view_source", "POST", "api/v1/view_source", FALSE,
            ("hash" :> HashArg) @@ ("file" :> JStr("a/Main.java")) @@ ("type" :> JStr("apk")))

----------------------------------------------------------------------------
(* The run: the transport (HTTPAdapter.send with max_retries=retry_strategy) *)

\* The statuses and bodies the server answers with.
Statuses == {200, 201, 404, 429, 503}

\* A 200 answer carries an answer of the endpoint or any of the generic bodies
\* (a proxy's error page, a truncated answer); any other answer a generic body.
BodiesFor(op, status_code) ==
    IF status_code # 200 THEN GenericBodies
    ELSE CASE op = "upload" ->
                GenericBodies \cup {UP_OK, UP_EXTRA, UP_NOHASH, UP_HASHNUM, UP_HASHNULL}
           [] op = "scans" ->
                GenericBodies \cup {SL_UPPER, SL_LOWER, SL_NOTS, SL_BADTS, SL_MD5NULL,
                                    SL_BADITEM}
           [] op = "scan" ->
                GenericBodies \cup {SC_OK, SC_NOTRK, SC_TRK0, SC_TRKEMPTY, SC_TRKPART,
                                    SC_CVSSSTR, SC_CVSSSTRTRK, SC_NOSCORE}
           [] op = "delete_scan" -> GenericBodies \cup {DL_OK}
           [] op = "view_source" -> GenericBodies \cup {VS_OK, VS_FT, VS_NOTYPE, VS_NODATA}
           [] op = "report_pdf" -> {PDF_OK, B_EMPTY}
           [] op = "report_json" -> {SC_OK, B_TEXT}
           [] op = "write_report_json" -> {SC_OK, B_TEXT}

\* Retry.increment: the request is sent again, or the retries are exhausted
\* (total < 0) and `exhausted` is raised to the client method; either way the
\* transport is done with the request once it hands back. `last` is what the
\* attempt ended with: the response's status, or 0 for a connection failure.
\* The exception keeps the status and body of the response that exhausted the
\* retries, for the record only: no client method reads them.
Retry(last, text, exhausted) ==
    IF net.total - 1 < 0
    THEN /\ reply' = [RequestException(exhausted) EXCEPT !.status_code = last,
                                                        !.text = text]
         /\ net' = Idle
         /\ phase' = "ret"
    ELSE /\ net' = [net EXCEPT !.sends = @ + 1, !.total = @ - 1, !.last = last]
         /\ UNCHANGED <<reply, phase>>

\* The connection fails (refused, reset, timed out) before a response arrives.
urlopen_error ==
    /\ phase = "net"
    /\ Retry(0, "", "ConnectionError")
    /\ UNCHANGED <<lib, args, calls, requests, done, res, fs, client_exc, app_exc, stderr, exit>>

\* A response arrives. A response read in full by session.post (stream=False)
\* whose body breaks off raises there; with stream=True the body is read later.
urlopen_response ==
    /\ phase = "net"
    /\ \E status_code \in Statuses, body_ok \in BOOLEAN :
       \E text \in BodiesFor(CurOp, status_code) :
         IF is_retry(net.method, status_code)
         THEN /\ body_ok
              /\ Retry(status_code, text, "RetryError")
         ELSE /\ reply' = IF ~body_ok /\ ~net.stream
                          THEN RequestException("ChunkedEncodingError")
                          ELSE Response(status_code, text, body_ok)
              /\ phase' = "ret"
              /\ net' = Idle
    /\ UNCHANGED <<lib, args, calls, requests, done, res, fs, client_exc, app_exc, stderr, exit>>

\* The user interrupts the run (Ctrl-C) while the request is in progress:
\* KeyboardInterrupt is raised inside session.post / session.get, and neither
\* urllib3, requests, the client method (`except requests.RequestException`,
\* `except IOError`) nor the workflow method (`except MobsfError`) catches it.
KeyboardInterrupt ==
    /\ phase = "net"
    /\ client_exc' = PyExc("KeyboardInterrupt", "")
    /\ net' = Idle
    /\ phase' = "raised"
    /\ UNCHANGED <<lib, args, calls, requests, done, reply, res, fs, app_exc, stderr, exit>>

----------------------------------------------------------------------------
(* The run: the client method goes on with the transport's answer *)

\* The method returns to the workflow, or raises.
Finish(op, outcome) ==
    /\ IF outcome.ok
       THEN /\ done' = Append(done, op)
            /\ phase' = "app"
            /\ UNCHANGED client_exc
       ELSE /\ client_exc' = outcome.exc
            /\ phase' = "raised"
            /\ UNCHANGED done
    /\ UNCHANGED <<lib, args, calls, requests, net, reply, app_exc, stderr, exit>>

Keep(outcome, key) == IF outcome.ok THEN [res EXCEPT ![key] = outcome.val] ELSE res

upload_ret ==
    /\ phase = "ret" /\ CurOp = "upload"
    /\ LET outcome == upload_return(reply)
       IN  Finish("upload", outcome) /\ res' = Keep(outcome, "upload")
    /\ UNCHANGED fs

\* datetime.now() is whatever the clock shows when an entry is decoded.
Clock == {"2026-11-02 09:00:00", "2026-11-02 09:00:01"}

scans_ret ==
    /\ phase = "ret" /\ CurOp = "scans"
    /\ \E now \in Clock :
         LET outcome == scans_return(reply, now)
         IN  Finish("scans", outcome) /\ res' = Keep(outcome, "scans")
    /\ UNCHANGED fs

scan_ret ==
    /\ phase = "ret" /\ CurOp = "scan"
    /\ LET outcome == scan_return(reply)
       IN  Finish("scan", outcome) /\ res' = Keep(outcome, "scan")
    /\ UNCHANGED fs

delete_scan_ret ==
    /\ phase = "ret" /\ CurOp = "delete_scan"
    /\ LET outcome == delete_scan_return(reply)
       IN  Finish("delete_scan", outcome) /\ res' = Keep(outcome, "delete_scan")
    /\ UNCHANGED fs

\* What the file system does when a report file is written.
IoOutcomes == {"ok", "open_fail", "write_fail"}

report_pdf_ret ==
    /\ phase = "ret" /\ CurOp = "report_pdf"
    /\ \E io \in IoOutcomes :
         LET outcome == report_pdf_return(reply, fs.pdf, io)
         IN  Finish("report_pdf", outcome.res) /\ fs' = [fs EXCEPT !.pdf = outcome.file]
    /\ UNCHANGED res

report_json_ret ==
    /\ phase = "ret" /\ CurOp = "report_json"
    /\ LET outcome == report_json_return(reply)
       IN  Finish("report_json", outcome) /\ res' = Keep(outcome, "report_json")
    /\ UNCHANGED fs

write_report_json_ret ==
    /\ phase = "ret" /\ CurOp = "write_report_json"
    /\ \E io \in IoOutcomes :
         LET outcome == write_report_json_return(reply, fs.json, io)
         IN  /\ Finish("write_report_json", outcome.res)
             /\ res' = Keep(outcome.res, "report_json")
             /\ fs' = [fs EXCEPT !.json = outcome.file]

view_source_ret ==
    /\ phase = "ret" /\ CurOp = "view_source"
    /\ LET outcome == view_source_return(reply)
       IN  Finish("view_source", outcome) /\ res' = Keep(outcome, "view_source")
    /\ UNCHANGED fs

----------------------------------------------------------------------------
(* The run: the workflow method ends, main exits *)

\* App.ci after the reports are saved: "Validate scores".
ci_thresholds ==
    /\ phase = "app" /\ args.command = "ci" /\ NextOp = "none"
    /\ LET outcome == ci_validate(res.scan[1], args.cvss, args.trackers, args.security)
       IN  app_exc' = IF outcome.ok THEN NoExc ELSE outcome.exc
    /\ phase' = "main"
    /\ UNCHANGED <<lib, args, calls, requests, done, net, reply, res, fs, client_exc, stderr, exit>>

\* Any other workflow method returns after its last client call and the print
\* of its result. Only App.scans's print can raise: print(response) renders the
\* table (ScansResponse.__str__), and its exception is no MobsfError.
app_return ==
    /\ phase = "app" /\ args.command # "ci" /\ NextOp = "none"
    /\ app_exc' = IF args.command = "scans" /\ ~ScansResponse_str(res.scans[1]).ok
                  THEN ScansResponse_str(res.scans[1]).exc
                  ELSE app_exc
    /\ phase' = "main"
    /\ UNCHANGED <<lib, args, calls, requests, done, net, reply, res, fs, client_exc, stderr,
                   exit>>

\* cli/app.py: `except MobsfError as e: raise AppError.from_mobsf_error(e)`;
\* any other exception passes through.
app_except ==
    /\ phase = "raised"
    /\ app_exc' = IF client_exc.type = "MobsfError" THEN from_mobsf_error(client_exc)
                  ELSE client_exc
    /\ reply' = NoReply
    /\ phase' = "main"
    /\ UNCHANGED <<lib, args, calls, requests, done, net, res, fs, client_exc, stderr, exit>>

\* Handlers that would treat an interrupt as any other exception (not the
\* code's).
main_handler_no_interrupt(e) ==
    CASE e.type = "none" -> [stderr |-> None, exit |-> 0]
      [] e.type = "AppError" -> [stderr |-> Some("Error: " \o e.message.s), exit |-> 1]
      [] OTHER -> [stderr |-> Some("Unexpected error: " \o e.message.s), exit |-> 1]

\* cli/main.py main: the handlers around execute(app, args).
main_handler(e) ==
    CASE e.type = "none" -> [stderr |-> None, exit |-> 0]
      [] e.type = "AppError" -> [stderr |-> Some("Error: " \o e.message.s), exit |-> 1]
      [] e.type = "KeyboardInterrupt" -> [stderr |-> Some("\nInterrupted by user"), exit |-> 130]
      [] OTHER -> [stderr |-> Some("Unexpected error: " \o e.message.s), exit |-> 1]

main_exit ==
    /\ phase = "main"
    /\ stderr' = main_handler(app_exc).stderr
    /\ exit' = Some(main_handler(app_exc).exit)
    /\ phase' = "exit"
    /\ UNCHANGED <<lib, args, calls, requests, done, net, reply, res, fs, client_exc, app_exc>>

Next ==
    \/ upload \/ scans \/ scan \/ delete_scan \/ report_pdf \/ report_json
    \/ write_report_json \/ view_source
    \/ urlopen_error \/ urlopen_response \/ KeyboardInterrupt
    \/ upload_ret \/ scans_ret \/ scan_ret \/ delete_scan_ret \/ report_pdf_ret
    \/ report_json_ret \/ write_report_json_ret \/ view_source_ret
    \/ ci_thresholds \/ app_return \/ app_except \/ main_exit

Spec == Init /\ [][Next]_vars

----------------------------------------------------------------------------
(* Direct calls of the library's functions, as tests/test_error.py and     *)
(* tests/test_response.py make them: a function is applied to each of the  *)
(* call's inputs in turn, and what it returned is recorded.                 *)

\* The status codes an error is built with.
StatusCodes == {JNull, JNum(0), JNum(200), JNum(404), JNum(503)}

ErrorMessages == {JStr("Not found"), JStr("Invalid hash"), JStr("")}

Errors ==
    {MobsfError(cause, message, status_code) :
        cause \in ErrorCause, message \in ErrorMessages, status_code \in StatusCodes}

\* Values of another type than a field should have.
WrongValues == {JNull, JNum(123), JStr(""), JArr(<<>>)}

\* A JSON object, the object with one key missing, with one value replaced and
\* with one more key.
Variants(o) ==
    {o, o @@ ("extra" :> JNum(1))}
    \cup {Without(o, k) : k \in DOMAIN o}
    \cup {[o EXCEPT ![k] = v] : k \in DOMAIN o, v \in WrongValues}

\* The scan responses: with and without trackers, the trackers object with its
\* variants (the counts 0/0, a count missing, the empty object, null).
ScanObjects ==
    Variants(ScanObj)
    \cup {ScanObj @@ ("package_name" :> JStr("com.test.app")) @@ ("trackers" :> JObj(t)) :
            t \in Variants(TrackersObj(2, 407)) \cup Variants(TrackersObj(0, 0))}
    \cup {ScanObj @@ ("trackers" :> v) : v \in {JNull, JObj(NoObj), JNum(0)}}

\* The same entry under upper-case keys.
UpperCase(o) ==
    [K \in {UpperKeys[i] : i \in {j \in 1..8 : LowerKeys[j] \in DOMAIN o}} |->
        o[LowerKeys[CHOOSE i \in 1..8 : UpperKeys[i] = K]]]

\* The scan entries: every entry twice under the same keys, and once under
\* upper-case keys then under lower-case keys.
ItemCalls ==
    UNION {{<<JObj(o), JObj(o)>>, <<JObj(UpperCase(o)), JObj(UpperCase(o))>>,
            <<JObj(UpperCase(o)), JObj(o)>>} : o \in Variants(ItemObj(LowerKeys))}

\* Entries of a scan list: with and without date, with fields of the wrong
\* type, with an md5 of 12 and of 13 characters and a name of 20 and of 21.
ListItems ==
    {JObj(ItemObj(UpperKeys)), JObj(ItemObj(LowerKeys)),
     JObj(Without(ItemObj(LowerKeys), "timestamp")),
     JObj([ItemObj(UpperKeys) EXCEPT !["MD5"] = JStr("abc123")]),
     JObj([ItemObj(UpperKeys) EXCEPT !["MD5"] = JNull]),
     JObj([ItemObj(LowerKeys) EXCEPT !["package_name"] = JNum(123)]),
     JObj([ItemObj(LowerKeys) EXCEPT !["md5"] = JStr("0123456789ab"),
                                     !["package_name"] = JStr("com.example.applicat")]),
     JObj([ItemObj(LowerKeys) EXCEPT !["md5"] = JStr("0123456789abc"),
                                     !["package_name"] = JStr("com.example.applicati")]),
     JObj(NoObj)}

ScansObjects ==
    {ScansObj(<<>>), "content" :> JArr(<<>>), NoObj}
    \cup {ScansObj(<<i>>) : i \in ListItems}
    \cup {"content" :> JArr(<<i, j>>) : i, j \in ListItems}

Twice(v) == <<v, v>>

\* The calls: the function and the inputs it is applied to, one after another.
Calls ==
    {[fn |-> "MobsfError.__str__", data |-> <<e>>] : e \in Errors}
    \cup {[fn |-> "UploadResponse.from_dict", data |-> Twice(JObj(o))] :
            o \in Variants(UploadObj)}
    \cup {[fn |-> "ScanResponse.from_dict", data |-> Twice(JObj(o))] : o \in ScanObjects}
    \cup {[fn |-> "ScanItem.from_dict", data |-> d] : d \in ItemCalls}
    \cup {[fn |-> "ScansResponse.from_dict", data |-> Twice(JObj(o))] : o \in ScansObjects}
    \cup {[fn |-> "DeleteScanResponse.from_dict", data |-> Twice(JObj(o))] :
            o \in Variants("deleted" :> JStr("abc123"))}
    \cup {[fn |-> "ViewSourceResponse.from_dict", data |-> Twice(JObj(o))] :
            o \in Variants(ViewObj) \cup Variants(ViewObj @@ ("type" :> JStr("java")))
                  \cup {ViewObj @@ ("file_type" :> JStr("java"))}}

\* No CLI run: only library calls are made.
LibInit ==
    /\ call \in Calls
    /\ ret = <<>>
    /\ args = DefaultArgs("none")
    /\ phase = "lib"
    /\ calls = <<>>
    /\ requests = <<>>
    /\ done = <<>>
    /\ net = Idle
    /\ reply = NoReply
    /\ res = NoRes
    /\ fs = [pdf |-> None, json |-> None]
    /\ client_exc = NoExc
    /\ app_exc = NoExc
    /\ stderr = None
    /\ exit = None

\* The input of the next application of the call's function.
Input == call.data[Len(ret) + 1]

\* The clock does not go back between two applications.
ClockFrom(now) == IF now = "2026-11-02 09:00:01" THEN {now} ELSE Clock

Now == IF ret = <<>> THEN Clock ELSE ClockFrom(ret[Len(ret)].now)

\* The function returns `out`; `now` is the clock it read ("" when it reads none).
Returned(fn, now, out) ==
    /\ ret' = Append(ret, [now |-> now, out |-> out])
    /\ UNCHANGED <<call, args, phase, calls, requests, done, net, reply, res, fs, client_exc,
                   app_exc, stderr, exit>>

Applies(fn) == phase = "lib" /\ call.fn = fn /\ Len(ret) < Len(call.data)

MobsfError_str ==
    /\ Applies("MobsfError.__str__")
    /\ Returned("MobsfError.__str__", "", Return(JStr(format_message(Input))))

UploadResponse_from_dict_call ==
    /\ Applies("UploadResponse.from_dict")
    /\ Returned("UploadResponse.from_dict", "", UploadResponse_from_dict(Input))

ScanResponse_from_dict_call ==
    /\ Applies("ScanResponse.from_dict")
    /\ Returned("ScanResponse.from_dict", "", ScanResponse_from_dict(Input))

ScanItem_from_dict_call ==
    /\ Applies("ScanItem.from_dict")
    /\ \E now \in Now :
         Returned("ScanItem.from_dict", now, ScanItem_from_dict(Input, now))

\* ScansResponse.from_dict, then str() of the result when there is one.
ScansResponse_from_dict_call ==
    /\ Applies("ScansResponse.from_dict")
    /\ \E now \in Now :
         LET response == ScansResponse_from_dict(Input, now)
         IN  Returned("ScansResponse.from_dict", now,
                      [ok |-> response.ok, val |-> response.val, exc |-> response.exc,
                       str |-> IF response.ok THEN Some(ScansResponse_str(response.val[1]))
                               ELSE None])

DeleteScanResponse_from_dict_call ==
    /\ Applies("DeleteScanResponse.from_dict")
    /\ Returned("DeleteScanResponse.from_dict", "", DeleteScanResponse_from_dict(Input))

ViewSourceResponse_from_dict_call ==
    /\ Applies("ViewSourceResponse.from_dict")
    /\ Returned("ViewSourceResponse.from_dict", "", ViewSourceResponse_from_dict(Input))

LibNext ==
    \/ MobsfError_str
    \/ UploadResponse_from_dict_call
    \/ ScanResponse_from_dict_call
    \/ ScanItem_from_dict_call
    \/ ScansResponse_from_dict_call
    \/ DeleteScanResponse_from_dict_call
    \/ ViewSourceResponse_from_dict_call

LibSpec == LibInit /\ [][LibNext]_vars

----------------------------------------------------------------------------
(* Properties *)

\* The client method called last.
LastOp == calls[Len(calls)]

\* A client method has just returned or raised with the transport's answer.
Answered == phase \in {"app", "raised"} /\ reply.kind # "none"

\* The answer ended with a response whose status is not 200 (status 0: no
\* response, the connection failed).
Non200 == Answered /\ reply.status_code \notin {0, 200}

IsClientError(e, cause) == e.type = "MobsfError" /\ e.cause = cause

\* C1. Whatever the environment does, a client method returns or fails with one
\* MobsfError whose cause is one of the three error causes; nothing else
\* leaves the client.
C1_OnlyClientErrors ==
    client_exc.type # "none" =>
        client_exc.type = "MobsfError" /\ client_exc.cause \in ErrorCause

\* C2. When the response finally received has a status other than 200, the
\* client method fails with InvalidHttpResponse carrying that status and returns
\* no record; only a 200 response is decoded into a record.
C2_Non200IsInvalidResponse ==
    /\ Non200 =>
        /\ phase = "raised"
        /\ IsClientError(client_exc, INVALID_HTTP_RESPONSE)
        /\ client_exc.status_code = JNum(reply.status_code)
    /\ (Answered /\ phase = "app") => reply.status_code = 200

\* C3. For a response whose status is not 200 the error message is the body's
\* `error` field when the body is JSON with such a field, the raw body when the
\* body is not JSON, `HTTP <status>` when the body is empty; and a message is
\* surfaced for every JSON shape of the body (object, array, scalar).
C3_ErrorMessage ==
    (Non200 /\ reply.body_ok) =>
        LET body == json_loads(reply.text)
        IN  /\ client_exc.type = "MobsfError"
            /\ (body.ok /\ body.val[1].t = "obj" /\ "error" \in DOMAIN body.val[1].o) =>
                    client_exc.message = body.val[1].o["error"]
            /\ (~body.ok /\ reply.text # "") => client_exc.message = JStr(reply.text)
            /\ reply.text = "" =>
                    client_exc.message = JStr("HTTP " \o NatToStr(reply.status_code))

\* The body of the answer is a JSON object without an `error` field.
ObjectWithoutError ==
    LET body == json_loads(reply.text)
    IN  body.ok /\ body.val[1].t = "obj" /\ "error" \notin DOMAIN body.val[1].o

\* C4 as claimed. For a response whose status is not 200 and whose body is JSON
\* without an `error` field, the message of the InvalidHttpResponse error is the
\* raw body text.
C4_FallbackRawBody ==
    (Non200 /\ reply.kind = "response" /\ reply.body_ok /\ ObjectWithoutError) =>
        /\ IsClientError(client_exc, INVALID_HTTP_RESPONSE)
        /\ client_exc.message = JStr(reply.text)

\* C4 as amended. For a response handed to the client method whose status is
\* not 200: when the body is a JSON object without an `error` field the error is
\* InvalidHttpResponse with that status and the fixed message "Unknown error";
\* the raw body text is the message when the body is not JSON and not empty, and
\* `HTTP <code>` when the body is empty.
C4_UnknownError ==
    (Non200 /\ reply.kind = "response" /\ reply.body_ok) =>
        LET body == json_loads(reply.text)
        IN  /\ ObjectWithoutError =>
                /\ IsClientError(client_exc, INVALID_HTTP_RESPONSE)
                /\ client_exc.status_code = JNum(reply.status_code)
                /\ client_exc.message = JStr("Unknown error")
            /\ (~body.ok /\ reply.text # "") =>
                /\ IsClientError(client_exc, INVALID_HTTP_RESPONSE)
                /\ client_exc.message = JStr(reply.text)
            /\ reply.text = "" =>
                /\ IsClientError(client_exc, INVALID_HTTP_RESPONSE)
                /\ client_exc.message = JStr("HTTP " \o NatToStr(reply.status_code))

\* C4, the case: a 404 with body {} surfaced "Unknown error".
C4_Witness ==
    /\ phase = "raised" /\ reply.kind = "response" /\ reply.status_code = 404
    /\ reply.text = B_NOERR
    /\ client_exc.message = JStr("Unknown error")

\* The client method decoded a 200 answer whose body is a JSON object.
DecodedObject ==
    /\ Answered /\ reply.kind = "response" /\ reply.status_code = 200 /\ reply.body_ok
    /\ LastOp \in {"upload", "scan", "delete_scan", "view_source"}
    /\ json_loads(reply.text).ok
    /\ json_loads(reply.text).val[1].t = "obj"

\* The fields a decoder reads with data[...].
Required(op) ==
    CASE op = "upload" -> {"analyzer", "status", "hash", "scan_type", "file_name"}
      [] op = "scan" -> {"title", "version", "file_name", "app_name", "app_type", "size",
                         "md5", "sha1", "sha256", "average_cvss", "security_score"}
      [] op = "delete_scan" -> {"deleted"}
      [] op = "view_source" -> {"title", "file", "data", "version"}

MissesRequired(op, data) ==
    \/ ~(Required(op) \subseteq DOMAIN data.o)
    \/ /\ op = "scan"
       /\ "trackers" \in DOMAIN data.o
       /\ data.o["trackers"].t = "obj"
       /\ DOMAIN data.o["trackers"].o # {}
       /\ ~({"detected_trackers", "total_trackers"} \subseteq DOMAIN data.o["trackers"].o)

\* C5. Decoding is all or nothing: a JSON object that misses a required field
\* makes the decoder fail with an InvalidHttpResponse error and no record; a
\* record exists only if every required field was present.
C5_DecodeAllOrNothing ==
    DecodedObject =>
        LET data == json_loads(reply.text).val[1]
        IN  IF MissesRequired(LastOp, data)
            THEN phase = "raised" /\ IsClientError(client_exc, INVALID_HTTP_RESPONSE)
            ELSE TRUE

\* The strings of a record are strings.
AllStr(rec, fields) == \A f \in fields : rec[f].t = "str"

\* C6. No record holds a value of the wrong type: a record's strings are
\* strings, averageCvss is a number, securityScore and the tracker counts are
\* integers.
C6_NoWrongTypes ==
    /\ res.upload # None =>
            AllStr(res.upload[1], {"analyzer", "status", "hash", "scan_type", "file_name"})
    /\ res.scan # None =>
        /\ AllStr(res.scan[1], {"title", "version", "file_name", "app_name", "app_type",
                                "size", "md5", "sha1", "sha256"})
        /\ res.scan[1].average_cvss.t \in {"float", "num"}
        /\ res.scan[1].security_score.t = "num"
        /\ res.scan[1].trackers # None =>
                /\ res.scan[1].trackers[1].detected_trackers.t = "num"
                /\ res.scan[1].trackers[1].total_trackers.t = "num"
    /\ res.delete_scan # None => res.delete_scan[1].deleted.t = "str"
    /\ res.view_source # None =>
            AllStr(res.view_source[1], {"title", "file", "file_type", "data", "version"})

\* A sequence is a prefix of another.
IsPrefix(s, t) == Len(s) <= Len(t) /\ SubSeq(t, 1, Len(s)) = s

\* C7. upload of a path that does not exist, or that is not a regular file,
\* fails with IoError, and in that run no request is sent.
C7_MissingFileNoRequest ==
    (args.command \in {"upload", "play", "ci"} /\ args.file \in {"missing", "dir"}) =>
        /\ requests = <<>>
        /\ net.sends = 0
        /\ reply.kind = "none"
        /\ calls \in {<<>>, <<"upload">>}
        /\ done = <<>>
        /\ calls # <<>> =>
            /\ IsClientError(client_exc, IO_ERROR)
            /\ client_exc.status_code = JNull

\* C7, the case: the upload of a missing file has failed with IoError and the
\* run is over without a request.
C7_Witness ==
    /\ args.command = "upload" /\ args.file = "missing"
    /\ calls = <<"upload">>
    /\ IsClientError(client_exc, IO_ERROR)
    /\ requests = <<>>
    /\ phase = "exit" /\ exit = Some(1)

\* C8. ci calls upload, scan, report_pdf, write_report_json in this order and
\* then validates; play calls upload, then scan. A step starts only after the
\* step before it returned, a step that raises ends the workflow, no client
\* method is called twice, one request is sent per call and there is never more
\* than one request in flight.
C8_StrictPipeline ==
    /\ args.command = "ci" =>
            IsPrefix(calls, <<"upload", "scan", "report_pdf", "write_report_json">>)
    /\ args.command = "play" => IsPrefix(calls, <<"upload", "scan">>)
    /\ args.command \in {"ci", "play"} =>
        /\ IsPrefix(done, calls)
        /\ Len(calls) <= Len(done) + 1
        /\ Len(requests) <= Len(calls)
        /\ \A i \in 1..Len(requests) : requests[i].op = calls[i]
        /\ \A i, j \in 1..Len(calls) : calls[i] = calls[j] => i = j
        /\ phase \in {"net", "ret"} => Len(calls) = Len(done) + 1
        /\ Len(calls) = Len(done) + 1 => phase \in {"net", "ret", "raised", "main", "exit"}
        /\ client_exc.type # "none" =>
            /\ Len(calls) = Len(done) + 1
            /\ phase \in {"raised", "main", "exit"}
        /\ (phase \in {"main", "exit"} /\ client_exc.type = "none") =>
                done = IF args.command = "ci"
                       THEN <<"upload", "scan", "report_pdf", "write_report_json">>
                       ELSE <<"upload", "scan">>

\* C8, the case: a ci run went through its four steps and the validation.
C8_Witness ==
    /\ args.command = "ci"
    /\ done = <<"upload", "scan", "report_pdf", "write_report_json">>
    /\ Len(requests) = 4
    /\ phase = "exit"

\* The ci run has reached the end of "Validate scores".
Validated == args.command = "ci" /\ phase \in {"main", "exit"} /\ Len(done) = 4

\* The thresholds, on the scan record of the run: a value that is not a number
\* is above or below nothing.
CvssViolated ==
    LET v == res.scan[1].average_cvss
    IN  IsNumber(v) /\ NumVal(v) > NumVal(args.cvss)

SecurityViolated ==
    LET v == res.scan[1].security_score
    IN  IsNumber(v) /\ NumVal(v) < NumVal(args.security)

TrackersViolated ==
    /\ res.scan[1].trackers # None
    /\ LET v == res.scan[1].trackers[1].detected_trackers
       IN  IsNumber(v) /\ NumVal(v) > NumVal(args.trackers)

\* The message of a violated threshold: the metric, its value and its limit.
ThresholdMessages ==
    (IF CvssViolated
     THEN {JStr("CVSS score [" \o PyStr(res.scan[1].average_cvss) \o "] is to high. Max: "
                \o PyStr(args.cvss) \o "!")}
     ELSE {})
    \cup
    (IF SecurityViolated
     THEN {JStr("Security score [" \o PyStr(res.scan[1].security_score)
                \o "] is to low. Min: " \o PyStr(args.security) \o "!")}
     ELSE {})
    \cup
    (IF TrackersViolated
     THEN {JStr("Trackers score [" \o PyStr(res.scan[1].trackers[1].detected_trackers)
                \o "] is to high. Max: " \o PyStr(args.trackers) \o "!")}
     ELSE {})

\* C9. The validation of a ci run fails if and only if a threshold is violated
\* (averageCvss above its maximum, securityScore below its minimum, detected
\* trackers above their maximum), and the error then names a violated metric,
\* its value and its limit; 3.5 / 75 fails security >= 80 citing 75 and 80.
C9_ThresholdIff ==
    Validated =>
        /\ app_exc.type # "none" <=> (CvssViolated \/ SecurityViolated \/ TrackersViolated)
        /\ app_exc.type # "none" =>
            /\ app_exc.type = "AppError"
            /\ app_exc.message \in ThresholdMessages
        /\ phase = "exit" => (exit = Some(0) <=> app_exc.type = "none")
        /\ ( /\ res.scan[1].average_cvss = JFloat(35)
             /\ res.scan[1].security_score = JNum(75)
             /\ args.cvss = JFloat(39) /\ args.security = JNum(80) ) =>
                app_exc.message = JStr("Security score [75] is to low. Min: 80!")

Applied(fn, i) == call.fn = fn /\ i \in 1..Len(ret)

\* C11. str() of a MobsfError is `<cause>(<status_code>): <message>` whenever
\* the error has a status code, whatever the integer, and `<cause>: <message>`
\* when it has none.
C11_Rendering ==
    \A i \in 1..Len(ret) :
        Applied("MobsfError.__str__", i) =>
            LET e == call.data[i]
            IN  ret[i].out.val[1] =
                    IF e.status_code # JNull
                    THEN JStr(e.cause \o "(" \o NatToStr(e.status_code.n) \o "): "
                              \o e.message.s)
                    ELSE JStr(e.cause \o ": " \o e.message.s)

\* The value an entry gives for its k-th field, under either key; "" when it
\* gives none.
EntryValue(d, k) ==
    IF UpperKeys[k] \in DOMAIN d.o THEN d.o[UpperKeys[k]]
    ELSE IF LowerKeys[k] \in DOMAIN d.o THEN d.o[LowerKeys[k]]
    ELSE JStr("")

\* The fields of an entry but its timestamp (the third).
PlainFields == (1..8) \ {3}

\* The entry's timestamp is a date string.
HasDate(d) == EntryValue(d, 3) = JStr("2024-01-02 03:04:05")

DecodedTwice(fn) == call.fn = fn /\ Len(ret) = 2 /\ call.data[1] = call.data[2]

Decoders ==
    {"UploadResponse.from_dict", "ScanResponse.from_dict", "ScanItem.from_dict",
     "ScansResponse.from_dict", "DeleteScanResponse.from_dict",
     "ViewSourceResponse.from_dict"}

NoTimestamp(item) == [k \in DOMAIN item \ {"timestamp"} |-> item[k]]

\* Every entry of the scan list has a date.
ListDated(d) ==
    LET content == Get(d, "content", JArr(<<>>))
    IN  \A i \in 1..Len(content.a) : HasDate(content.a[i])

BothCounts(d) ==
    /\ "trackers" \in DOMAIN d.o
    /\ d.o["trackers"].t = "obj"
    /\ TrackersKeys \subseteq DOMAIN d.o["trackers"].o

\* C14. A scan response with all required fields and no `trackers` key decodes
\* to a record without trackers; with `trackers` holding both counts the
\* record carries exactly these counts (0/0 included); every other field of
\* the record is the input's value.
C14_Trackers ==
    \A i \in 1..Len(ret) :
        (Applied("ScanResponse.from_dict", i) /\ Has(call.data[i], ScanKeys)) =>
            LET d == call.data[i]
                r == ret[i].out
            IN  /\ "trackers" \notin DOMAIN d.o => r.ok /\ r.val[1].trackers = None
                /\ BothCounts(d) =>
                    /\ r.ok
                    /\ r.val[1].trackers =
                        Some([detected_trackers |-> d.o["trackers"].o["detected_trackers"],
                              total_trackers |-> d.o["trackers"].o["total_trackers"]])
                /\ r.ok =>
                    /\ \A k \in ScanKeys : r.val[1][k] = d.o[k]
                    /\ r.val[1].package_name = Get(d, "package_name", JNull)
                    /\ DOMAIN r.val[1] = ScanKeys \cup {"package_name", "trackers"}

\* C14, the case: a scan response with the counts 0/0 is decoded to a record
\* with the counts 0/0.
C14_Witness ==
    /\ Applied("ScanResponse.from_dict", 1)
    /\ BothCounts(call.data[1])
    /\ call.data[1].o["trackers"].o = TrackersObj(0, 0)
    /\ ret[1].out.ok
    /\ ret[1].out.val[1].trackers =
            Some([detected_trackers |-> JNum(0), total_trackers |-> JNum(0)])

\* C15. An upload response with the five required fields decodes to a record
\* whose five fields are the input's values, unchanged; other keys are ignored.
C15_UploadRoundTrip ==
    \A i \in 1..Len(ret) :
        (Applied("UploadResponse.from_dict", i) /\ Has(call.data[i], UploadKeys)) =>
            /\ ret[i].out.ok
            /\ DOMAIN ret[i].out.val[1] = UploadKeys
            /\ \A k \in UploadKeys : ret[i].out.val[1][k] = call.data[i].o[k]

\* C15, the case: an upload response with hash "abc123" and one more key is
\* decoded to a record with hash "abc123".
C15_Witness ==
    /\ Applied("UploadResponse.from_dict", 1)
    /\ call.data[1].o = UploadObj @@ ("extra" :> JNum(1))
    /\ ret[1].out.ok
    /\ ret[1].out.val[1].hash = JStr("abc123")

\* C16. A run ends with one exit status: 0 when the command completed, 1 when
\* an error occurred (a client error of any cause, a threshold violation, any
\* other exception), 130 when the user interrupted a call in progress; an
\* error is never followed by the status 0, and nothing happens after the exit.
C16_ExitStatus ==
    /\ exit \in {None, Some(0), Some(1), Some(130)}
    /\ exit # None <=> phase = "exit"
    /\ phase = "exit" =>
        /\ exit = Some(0) <=> (app_exc.type = "none" /\ client_exc.type = "none")
        /\ exit = Some(0) => done = Plan(args.command)
        /\ exit = Some(130) <=> client_exc.type = "KeyboardInterrupt"
        /\ exit = Some(130) => Len(calls) = Len(done) + 1
        /\ exit = Some(1) <=>
                (app_exc.type \notin {"none", "KeyboardInterrupt"})
        /\ client_exc.type = "MobsfError" => exit = Some(1)
        /\ app_exc.type = "AppError" => exit = Some(1)
        /\ ~ENABLED Next

\* C16, the case: the user interrupted the scan of a ci run, which exited
\* with 130.
C16_Witness ==
    /\ args.command = "ci"
    /\ calls = <<"upload", "scan">> /\ done = <<"upload">>
    /\ client_exc.type = "KeyboardInterrupt"
    /\ phase = "exit" /\ exit = Some(130)

\* C17. A MobsfError raised in a client method is converted by the workflow
\* method to an AppError whose text is str() of the MobsfError (cause, status
\* code if any, message), main prints it as `Error: <text>` and exits with 1;
\* the error is not dropped and not replaced by a success.
C17_ErrorSurfaced ==
    (client_exc.type = "MobsfError" /\ phase \in {"main", "exit"}) =>
        LET text == IF client_exc.status_code # JNull
                    THEN client_exc.cause \o "(" \o PyStr(client_exc.status_code) \o "): "
                         \o PyStr(client_exc.message)
                    ELSE client_exc.cause \o ": " \o PyStr(client_exc.message)
        IN  /\ app_exc.type = "AppError"
            /\ app_exc.message = JStr(text)
            /\ Len(done) < Len(Plan(args.command))
            /\ phase = "exit" =>
                /\ stderr = Some("Error: " \o text)
                /\ exit = Some(1)

\* C17, the case: a 404 with the body {"error":"Invalid hash"} ended the run
\* with the line `Error: InvalidHttpResponse(404): Invalid hash`.
C17_Witness ==
    /\ phase = "exit"
    /\ client_exc = MobsfError(INVALID_HTTP_RESPONSE, JStr("Invalid hash"), JNum(404))
    /\ stderr = Some("Error: InvalidHttpResponse(404): Invalid hash")
    /\ exit = Some(1)

\* The four fields of an entry that the table cuts are strings.
CutFieldsAreStrings(item) ==
    \A f \in {"md5", "app_name", "package_name", "file_name"} : item[f].t = "str"

\* The first n characters of a string, the whole string when it has no more.
Prefix(s, n) == IF Len(Chars(s)) > n THEN SubSeq(Chars(s), 1, n) ELSE Chars(s)

\* C18. In the table of the scan list, md5 is shown as its first 12 characters
\* followed by "..." when it is longer than 12 characters and unchanged
\* otherwise; app_name, package_name and file_name are shown as their first 20
\* characters when longer than 20 and unchanged otherwise; so no md5 shown is
\* longer than 15 characters and no name shown longer than 20.
C18_TableTruncation ==
    \A i \in 1..Len(ret) :
        ( /\ Applied("ScansResponse.from_dict", i)
          /\ ret[i].out.ok
          /\ ret[i].out.val[1].content # <<>>
          /\ \A j \in 1..Len(ret[i].out.val[1].content) :
                CutFieldsAreStrings(ret[i].out.val[1].content[j]) ) =>
            LET content == ret[i].out.val[1].content
                table == ret[i].out.str[1]
            IN  /\ table.ok
                /\ Len(table.val[1]) = Len(content)
                /\ \A j \in 1..Len(content) :
                    LET item == content[j]
                        row == table.val[1][j]
                        md5 == IF Len(Chars(item.md5.s)) > 12
                               THEN Prefix(item.md5.s, 12) \o <<".", ".", ".">>
                               ELSE Chars(item.md5.s)
                        names == <<Prefix(item.app_name.s, 20),
                                   Prefix(item.package_name.s, 20),
                                   Prefix(item.file_name.s, 20)>>
                    IN  /\ row[4] = JStr(Join(md5))
                        /\ Len(md5) <= 15
                        /\ \A c \in 1..3 : row[5 + c] = JStr(Join(names[c]))
                        /\ \A c \in 1..3 : Len(names[c]) <= 20

\* C18, the case: an entry with an md5 of 32 characters and a package name of
\* 28 is shown with "0123456789ab..." and "com.example.applicat".
C18_Witness ==
    /\ Applied("ScansResponse.from_dict", 1)
    /\ ret[1].out.ok
    /\ Len(ret[1].out.val[1].content) = 1
    /\ ret[1].out.val[1].content[1].md5 = JStr("0123456789abcdef0123456789abcdef")
    /\ ret[1].out.val[1].content[1].package_name = JStr("com.example.application.name")
    /\ ret[1].out.str[1].ok
    /\ ret[1].out.str[1].val[1][1][4] = JStr("0123456789ab...")
    /\ ret[1].out.str[1].val[1][1][7] = JStr("com.example.applicat")

ReportEnds == phase = "ret" /\ CurOp \in {"report_pdf", "write_report_json"}

\* C20. report_pdf and write_report_json open the destination only after a
\* response with status 200: no other step touches a report file, so a
\* request that fails in the transport or is answered with another status
\* leaves the file as it was (absent, or with its old content); and when
\* write_report_json returns, what it returns is the text written to the file
\* and the body of the response.
C20_FileAfter200 ==
    [][ /\ fs' # fs =>
            /\ ReportEnds
            /\ reply.kind = "response" /\ reply.status_code = 200
            /\ CurOp = "report_pdf" => fs'.json = fs.json
            /\ CurOp = "write_report_json" => fs'.pdf = fs.pdf
        /\ (ReportEnds /\ (reply.kind # "response" \/ reply.status_code # 200)) =>
            /\ fs' = fs
            /\ phase' = "raised"
        /\ (ReportEnds /\ CurOp = "write_report_json" /\ phase' = "app") =>
            /\ reply.kind = "response" /\ reply.status_code = 200
            /\ fs'.json = Some(reply.text)
            /\ res'.report_json = Some(JStr(reply.text))
      ]_vars

\* C20, the case: the PDF request of a run was answered 404 and the report
\* left by an earlier run is still there, unchanged.
C20_Witness ==
    /\ phase = "raised" /\ LastOp = "report_pdf"
    /\ reply.kind = "response" /\ reply.status_code = 404
    /\ IsClientError(client_exc, INVALID_HTTP_RESPONSE)
    /\ fs.pdf = Some(OLD)

----------------------------------------------------------------------------
(* C21: the upload's identifiers flow into the scan and report requests *)

\* The form of `request` has the field `f`, and its value is the text of `v`.
Carries(request, f, v) ==
    f \in DOMAIN request.data /\ request.data[f] = JStr(PyStr(v))

\* The requests of a play or ci run that name the uploaded artifact.
UsesUpload(request) == request.op \in {"scan", "report_pdf", "write_report_json"}

\* C21: in a play or ci run every scan request carries the scan_type,
\* file_name and hash of this run's upload response and every report request
\* carries that hash (so no such request goes out before the upload returned,
\* or with another hash); and in ci both report files exist once the last
\* report call has returned, before and after the thresholds are validated.
C21_UploadIdentifiers ==
    args.command \in {"play", "ci"} =>
        /\ \A i \in 1..Len(requests) :
             UsesUpload(requests[i]) =>
                /\ res.upload # None
                /\ Carries(requests[i], "hash", res.upload[1].hash)
                /\ requests[i].op = "scan" =>
                     /\ Carries(requests[i], "scan_type", res.upload[1].scan_type)
                     /\ Carries(requests[i], "file_name", res.upload[1].file_name)
        /\ (args.command = "ci" /\ Len(done) = 4) => fs.pdf # None /\ fs.json # None

----------------------------------------------------------------------------
(* C22: the order of the gates *)

\* The message of the first violated threshold, in the order CVSS, security
\* score, trackers.
FirstViolation ==
    IF CvssViolated
    THEN JStr("CVSS score [" \o PyStr(res.scan[1].average_cvss) \o "] is to high. Max: "
              \o PyStr(args.cvss) \o "!")
    ELSE IF SecurityViolated
    THEN JStr("Security score [" \o PyStr(res.scan[1].security_score)
              \o "] is to low. Min: " \o PyStr(args.security) \o "!")
    ELSE JStr("Trackers score [" \o PyStr(res.scan[1].trackers[1].detected_trackers)
              \o "] is to high. Max: " \o PyStr(args.trackers) \o "!")

\* The value of a gate equals its limit.
AtLimit(v, limit) == IsNumber(v) /\ NumVal(v) = NumVal(limit)

\* C22: when the validation of a ci run has ended and a threshold is violated,
\* the one error of the run is the threshold error of the first violated gate
\* in the order CVSS, security score, trackers (the later gates are not
\* reported, however many are violated); a value equal to its limit is no
\* violation of its gate; and when the scan record has no tracker information
\* the outcome is the one under every other tracker maximum.
C22_GatesInOrder ==
    Validated =>
        /\ (CvssViolated \/ SecurityViolated \/ TrackersViolated) =>
              /\ app_exc = AppError(FirstViolation.s)
              /\ phase = "exit" => stderr = Some("Error: " \o FirstViolation.s)
        /\ ( /\ AtLimit(res.scan[1].average_cvss, args.cvss)
             /\ AtLimit(res.scan[1].security_score, args.security)
             /\ res.scan[1].trackers # None =>
                  AtLimit(res.scan[1].trackers[1].detected_trackers, args.trackers) ) =>
              app_exc.type = "none"
        /\ res.scan[1].trackers = None =>
              \A t \in TrackerLimits :
                 LET outcome == ci_validate(res.scan[1], args.cvss, t, args.security)
                 IN  app_exc = IF outcome.ok THEN NoExc ELSE outcome.exc

====
